---- MODULE Spec2Model ----
(***************************************************************************)
(* The Intercom integration (lib/index.js): the entry points identify,     *)
(* track and group, the per-user lock they take, the redis job directory   *)
(* they read and write, and the upstream requests they send.               *)
(*                                                                         *)
(* Every asynchronous callback of the source is one action.  The lock, the *)
(* redis store and the upstream HTTP service are collaborators outside the *)
(* repository; they are modelled at their call sites by the replies they   *)
(* can give.                                                               *)
(***************************************************************************)
EXTENDS Integers, Sequences, FiniteSets, TLC

(* ------------------------------ bounds --------------------------------- *)

\* number of requests submitted by callers
NumReq == 2

Req == 1..NumReq

(* ---------------------------- JS values -------------------------------- *)

\* a missing string (undefined): falsy, and joined as the empty string
NoStr == ""

\* job.closing_at absent from the response body
undefined == -1

\* the result of arithmetic on undefined
NaN == -2000000000

\* a || b on strings
Or(a, b) == IF a # NoStr THEN a ELSE b

\* Array.prototype.join(':')
RECURSIVE Join(_)
Join(s) == IF Len(s) = 0 THEN ""
           ELSE IF Len(s) = 1 THEN s[1]
           ELSE s[1] \o ":" \o Join(Tail(s))

(* ------------------------------ inputs --------------------------------- *)

\* settings.appId and settings.apiKey of the integration instance
AppId == "fcxywseo"
ApiKey == "9d068fa090d38be4c715b669b3f1370f76ac5306"

\* settings.oauth: absent, present without an access token, present with one
NoOauth == [present |-> FALSE, access_token |-> NoStr]
Oauths == { NoOauth, [present |-> TRUE, access_token |-> NoStr],
            [present |-> TRUE, access_token |-> "tok"] }

\* the settings an instance is constructed with: the key pair (with either
\* value of isBulkAPIEnabled), an oauth object in place of the apiKey (with
\* and without a token), and an apiKey with no appId.  The handlers read the
\* credentials in headers() only.
Settings ==
  { [appId |-> AppId, apiKey |-> ApiKey, oauth |-> NoOauth, isBulkAPIEnabled |-> b] :
      b \in BOOLEAN }
  \cup { [appId |-> AppId, apiKey |-> NoStr, oauth |-> o, isBulkAPIEnabled |-> TRUE] :
           o \in Oauths }
  \cup { [appId |-> NoStr, apiKey |-> ApiKey, oauth |-> NoOauth, isBulkAPIEnabled |-> TRUE] }

\* the settings of the tests: appId and apiKey, no oauth
KeyPair(s) == s.appId = AppId /\ s.apiKey = ApiKey /\ s.oauth = NoOauth

\* the users whose events are submitted: one with a userId (and an email), one
\* known by an email only, one with neither
FullUser == [userId |-> "u1", email |-> "e1"]
Users == { FullUser, [userId |-> NoStr, email |-> "e1"], [userId |-> NoStr, email |-> NoStr] }

\* Date.now() when the create response is handled (milliseconds)
T0 == 1000000000

\* the upstream keeps a job open for 15 minutes
JobWindow == 900000

\* closing_at values a create response can carry: absent, a millisecond
\* timestamp one job window ahead, a unix timestamp in seconds
ClosingAts == { undefined, T0 + JobWindow, (T0 \div 1000) + (JobWindow \div 1000) }

\* a record left in the directory by an earlier request, whose expiry the
\* requests of a run do not reach
SeedJob == "J0"
SeedPx == 885000

NoJob == "none"
NoErr == "null"
NoRes == [kind |-> "none", id |-> NoJob]
NoMsg == [userId |-> NoStr, email |-> NoStr, action |-> "none"]
NoKey == "nokey"

\* the id the upstream gives the job it opens for the n-th upstream request of
\* request r: fresh, and different from every other job's
JobName(r, n) == "J" \o ToString(r) \o "." \o ToString(n)

(* ------------------------------- state --------------------------------- *)

VARIABLES
  settings,   \* this.settings
  user,       \* the user the requests of this run are about
  locks,      \* the lock store: pairs <<key, holder>>
  db,         \* the redis job directory: records [key, jobId, px]
  req,        \* per request: the handler's locals and its position
  hist        \* per request: what it has done so far

vars == <<settings, user, locks, db, req, hist>>

\* the messages callers submit: an identify, a track and a group of the user
Msgs == { [userId |-> user.userId, email |-> user.email, action |-> a] :
            a \in {"identify", "track", "group"} }

Held(k) == \E p \in locks : p[1] = k
Holds(r) == <<req[r].key, r>> \in locks

\* redis GET: the value stored under k, or none
Get(k) == IF \E e \in db : e.key = k
          THEN (CHOOSE e \in db : e.key = k).jobId
          ELSE NoJob

\* redis SET k v PX px: overwrites whatever is stored under k
Put(k, v, px) == { e \in db : e.key # k } \cup { [key |-> k, jobId |-> v, px |-> px] }

\* redis rejects a PX argument that is not a positive integer
ValidPx(px) == px # NaN /\ px > 0

\* a request not yet submitted.  pc is the callback the request waits for.
IdleReq == [pc |-> "idle", entry |-> "none", handler |-> "none", msg |-> NoMsg,
            key |-> NoKey, jobKey |-> NoKey, jobId |-> NoJob,
            err |-> NoErr, res |-> NoRes, setKey |-> NoKey,
            closing_at |-> undefined, expiration |-> 0]

\* what a request has done: the verdict of the validators if it was a
\* validation, the upstream requests it sent, its lock, directory and callback
\* events
IdleHist == [validation |-> "none",
             sent |-> <<>>, lockFailed |-> FALSE, acquired |-> FALSE,
             reads |-> 0, lookup |-> "unread",
             writes |-> 0, writeFailed |-> "no",
             unlocks |-> 0, callbacks |-> 0, cbErr |-> NoErr, cbRes |-> NoRes]

JobKeys == { Join(<<AppId, "jobs", t, u>>) : t \in {"users", "events"}, u \in {"u1", "e1"} }

Init ==
  /\ settings \in Settings
  /\ user \in Users
  /\ locks = {}
  /\ db \in { {}, { [key |-> k, jobId |-> SeedJob, px |-> SeedPx] : k \in JobKeys } }
  /\ settings.isBulkAPIEnabled => db = {}   \* these handlers never use the directory
  \* the handlers treat every identity and every credential alike: the other
  \* settings and the earlier record are explored with the user that has a userId
  /\ ~KeyPair(settings) => user = FullUser
  /\ db # {} => user = FullUser
  /\ req = [r \in Req |-> IdleReq]
  /\ hist = [r \in Req |-> IdleHist]

(* ------------------------------ helpers -------------------------------- *)

\* msg.userId() || msg.email()
UserKey(m) == Or(m.userId, m.email)

\* the lock key of identifyV1, identifyV2 and trackV2
UserLockKey(m) == Join(<<settings.appId, UserKey(m)>>)

\* the lock key of groupV2
GroupLockKey(m) == Join(<<settings.appId, "groups", UserKey(m)>>)

\* the job key groupV2 looks up
GroupJobKey(m) == Join(<<settings.appId, "jobs", "users", UserKey(m)>>)

\* the job key trackV2 looks up
TrackJobKey(m) == Join(<<settings.appId, "jobs", "events", UserKey(m)>>)

\* (msg.action() === 'track') ? 'events' : 'users'
DataType(m) == IF m.action = "track" THEN "events" ELSE "users"

\* fmt('/bulk/%s', dataType)
Endpoint(m) == "/bulk/" \o DataType(m)

\* createNewJob writing one job key for the users and the events of a user
CreateJobKey_NoType(m) == Join(<<settings.appId, "jobs", UserKey(m)>>)

\* the job key createNewJob writes
CreateJobKey(m) == Join(<<settings.appId, "jobs", DataType(m), UserKey(m)>>)

\* Date.now() - job.closing_at - 15000
Expiration(now, closing_at) ==
  IF closing_at = undefined THEN NaN ELSE now - closing_at - 15000

\* one upstream request, as sent; locked: the sender holds its lock
Call(ep, job, locked) == [endpoint |-> ep, job |-> job, locked |-> locked, status |-> "inflight"]

\* the reply to the request in flight
Answered(s, st) == [s EXCEPT ![Len(s)] = [@ EXCEPT !.status = st]]

InFlight(r) == Len(hist[r].sent) > 0 /\ hist[r].sent[Len(hist[r].sent)].status = "inflight"

\* fn(err, res): the caller's callback
Fn(h, e, res) == [h EXCEPT !.callbacks = @ + 1, !.cbErr = e, !.cbRes = res]

\* the request is over once its caller is called back: its locals are gone
Done(q) == [q EXCEPT !.pc = "done", !.jobKey = NoKey, !.jobId = NoJob, !.err = NoErr,
                     !.res = NoRes, !.setKey = NoKey, !.closing_at = undefined,
                     !.expiration = 0]

\* the arguments of redis.set are used up once the store has answered
Stored(q) == [q EXCEPT !.setKey = NoKey, !.closing_at = undefined, !.expiration = 0]

\* self.unlock(key, function(){ fn(err, res) }): the unlock is issued, the
\* callback waits for its reply
Unlock(q, e, res) == [q EXCEPT !.pc = "unlock", !.err = e, !.res = res]

(* ------------------------------ validation ----------------------------- *)

Valid == "valid"

\* oauthObject && oauthObject['access-token'] && oauthObject['access-token'].length
oauthTokenExists(oauthObject) == oauthObject.present /\ oauthObject.access_token # NoStr

\* the first validator: an oauth token, or both apiKey and appId
ensureCredentials(s) ==
  IF oauthTokenExists(s.oauth) THEN Valid
  ELSE IF s.apiKey # NoStr /\ s.appId # NoStr THEN Valid
  ELSE ".apiKey and .appId is required if .oauth['access-token'] is absent"

\* the second validator: a userId or an email
ensureUser(m) ==
  IF ~(m.email # NoStr \/ m.userId # NoStr)
  THEN ".userId or .email is required"
  ELSE Valid

\* validate_CredentialsOnly: the validators without the one on the user
validate_CredentialsOnly(m) == ensureCredentials(settings)

\* the validators of ensure(), run in the order they were added, on a message
\* about to be handled: the first error, if any
validate(m) ==
  IF ensureCredentials(settings) # Valid THEN ensureCredentials(settings)
  ELSE ensureUser(m)

(* ---------------------------- entry points ----------------------------- *)

\* requests are numbered in the order their callers submit them
Submit(r) == req[r].pc = "idle" /\ \A q \in Req : q < r => req[q].pc # "idle"

\* a caller runs the validators on a message, as the .validate() tests do: it
\* gets their verdict, and no handler is called.  The handlers below run no
\* validator: they take whatever message they are given.
ensure(r, m) ==
  /\ Submit(r)
  /\ req' = [req EXCEPT ![r] = [@ EXCEPT !.pc = "validated", !.msg = m]]
  /\ hist' = [hist EXCEPT ![r].validation = validate(m)]
  /\ UNCHANGED <<settings, user, locks, db>>

identifyV2(r, m) ==
  /\ Submit(r)
  /\ m.action = "identify"
  /\ ~settings.isBulkAPIEnabled
  /\ req' = [req EXCEPT ![r] = [@ EXCEPT !.pc = "lock", !.entry = "identify",
                                         !.handler = "identifyV2", !.msg = m,
                                         !.key = UserLockKey(m)]]
  /\ UNCHANGED <<settings, user, locks, db, hist>>

\* groupV2 asking for the lock identify and track use
groupV2_UserLock(r, m) ==
  /\ Submit(r)
  /\ m.action = "group"
  /\ ~settings.isBulkAPIEnabled
  /\ req' = [req EXCEPT ![r] = [@ EXCEPT !.pc = "lock", !.entry = "group",
                                         !.handler = "groupV2", !.msg = m,
                                         !.key = UserLockKey(m)]]
  /\ UNCHANGED <<settings, user, locks, db, hist>>

groupV2(r, m) ==
  /\ Submit(r)
  /\ m.action = "group"
  /\ ~settings.isBulkAPIEnabled
  /\ req' = [req EXCEPT ![r] = [@ EXCEPT !.pc = "lock", !.entry = "group",
                                         !.handler = "groupV2", !.msg = m,
                                         !.key = GroupLockKey(m)]]
  /\ UNCHANGED <<settings, user, locks, db, hist>>

\* trackV2 reading the directory without asking for the lock
trackV2_NoLock(r, m) ==
  /\ Submit(r)
  /\ m.action = "track"
  /\ ~settings.isBulkAPIEnabled
  /\ req' = [req EXCEPT ![r] = [@ EXCEPT !.pc = "get", !.entry = "track",
                                         !.handler = "trackV2", !.msg = m,
                                         !.key = UserLockKey(m),
                                         !.jobKey = TrackJobKey(m)]]
  /\ hist' = [hist EXCEPT ![r].reads = @ + 1]
  /\ UNCHANGED <<settings, user, locks, db>>

trackV2(r, m) ==
  /\ Submit(r)
  /\ m.action = "track"
  /\ ~settings.isBulkAPIEnabled
  /\ req' = [req EXCEPT ![r] = [@ EXCEPT !.pc = "lock", !.entry = "track",
                                         !.handler = "trackV2", !.msg = m,
                                         !.key = UserLockKey(m)]]
  /\ UNCHANGED <<settings, user, locks, db, hist>>

identifyV1(r, m) ==
  /\ Submit(r)
  /\ m.action = "identify"
  /\ settings.isBulkAPIEnabled
  /\ req' = [req EXCEPT ![r] = [@ EXCEPT !.pc = "lock", !.entry = "identify",
                                         !.handler = "identifyV1", !.msg = m,
                                         !.key = UserLockKey(m)]]
  /\ UNCHANGED <<settings, user, locks, db, hist>>

\* groupV1 sends the company first, before any lock is asked for
groupV1(r, m) ==
  /\ Submit(r)
  /\ m.action = "group"
  /\ settings.isBulkAPIEnabled
  /\ req' = [req EXCEPT ![r] = [@ EXCEPT !.pc = "companies", !.entry = "group",
                                         !.handler = "groupV1", !.msg = m]]
  /\ hist' = [hist EXCEPT ![r].sent = Append(@, Call("/companies", NoJob, Holds(r)))]
  /\ UNCHANGED <<settings, user, locks, db>>

\* trackV1 sends the event and hands the reply to the caller; it asks for no lock
trackV1(r, m) ==
  /\ Submit(r)
  /\ m.action = "track"
  /\ settings.isBulkAPIEnabled
  /\ req' = [req EXCEPT ![r] = [@ EXCEPT !.pc = "events", !.entry = "track",
                                         !.handler = "trackV1", !.msg = m]]
  /\ hist' = [hist EXCEPT ![r].sent = Append(@, Call("/events", NoJob, Holds(r)))]
  /\ UNCHANGED <<settings, user, locks, db>>

(* --------------------------- the lock callback -------------------------- *)

\* the lock callback looking up the events job key for group too
LookupKey_Events(q) == TrackJobKey(q.msg)

\* the job key the handler computes once it has the lock
LookupKey(q) == IF q.handler = "groupV2" THEN GroupJobKey(q.msg) ELSE TrackJobKey(q.msg)

\* lockGranted granting a lock that another request holds
lockGranted_Shared(r) ==
  /\ req[r].pc = "lock"
  /\ locks' = locks \cup {<<req[r].key, r>>}
  /\ IF req[r].handler \in {"identifyV1", "identifyV2"}
     THEN /\ req' = [req EXCEPT ![r] = [@ EXCEPT !.pc = "users"]]
          /\ hist' = [hist EXCEPT ![r] = [@ EXCEPT !.acquired = TRUE,
                        !.sent = Append(@, Call("/users", NoJob, <<req[r].key, r>> \in locks'))]]
     ELSE /\ req' = [req EXCEPT ![r] = [@ EXCEPT !.pc = "get", !.jobKey = LookupKey(req[r])]]
          /\ hist' = [hist EXCEPT ![r] = [@ EXCEPT !.acquired = TRUE, !.reads = @ + 1]]
  /\ UNCHANGED <<settings, user, db>>

\* the lock is granted: identify posts the user, track and group read the directory
lockGranted(r) ==
  /\ req[r].pc = "lock"
  /\ ~Held(req[r].key)
  /\ locks' = locks \cup {<<req[r].key, r>>}
  /\ IF req[r].handler \in {"identifyV1", "identifyV2"}
     THEN /\ req' = [req EXCEPT ![r] = [@ EXCEPT !.pc = "users"]]
          /\ hist' = [hist EXCEPT ![r] = [@ EXCEPT !.acquired = TRUE,
                        !.sent = Append(@, Call("/users", NoJob, <<req[r].key, r>> \in locks'))]]
     ELSE /\ req' = [req EXCEPT ![r] = [@ EXCEPT !.pc = "get", !.jobKey = LookupKey(req[r])]]
          /\ hist' = [hist EXCEPT ![r] = [@ EXCEPT !.acquired = TRUE, !.reads = @ + 1]]
  /\ UNCHANGED <<settings, user, db>>

\* the lock callback going on to the directory or the upstream despite the error
lockFailed_Proceeds(r) ==
  /\ req[r].pc = "lock"
  /\ IF req[r].handler \in {"identifyV1", "identifyV2"}
     THEN /\ req' = [req EXCEPT ![r] = [@ EXCEPT !.pc = "users"]]
          /\ hist' = [hist EXCEPT ![r] = [@ EXCEPT !.lockFailed = TRUE,
                        !.sent = Append(@, Call("/users", NoJob, Holds(r)))]]
     ELSE /\ req' = [req EXCEPT ![r] = [@ EXCEPT !.pc = "get", !.jobKey = LookupKey(req[r])]]
          /\ hist' = [hist EXCEPT ![r] = [@ EXCEPT !.lockFailed = TRUE, !.reads = @ + 1]]
  /\ UNCHANGED <<settings, user, locks, db>>

\* if (err) return fn(err)
lockFailed(r) ==
  /\ req[r].pc = "lock"
  /\ req' = [req EXCEPT ![r] = Done(@)]
  /\ hist' = [hist EXCEPT ![r] = Fn([@ EXCEPT !.lockFailed = TRUE], "LockError", NoRes)]
  /\ UNCHANGED <<settings, user, locks, db>>

(* ------------------------- the bulk job handlers ------------------------ *)

\* addToExisting: post the data with data.job = { id: jobId }.  h is the
\* request's history up to the call.
addToExisting(r, jobId, h) ==
  /\ req' = [req EXCEPT ![r] = [@ EXCEPT !.pc = "append", !.jobId = jobId]]
  /\ hist' = [hist EXCEPT ![r] =
                [h EXCEPT !.sent = Append(@, Call(Endpoint(req[r].msg), jobId, Holds(r)))]]

\* createNewJob: post the data with no job.  h is the request's history up to
\* the call.
createNewJob(r, h) ==
  /\ req' = [req EXCEPT ![r] = [@ EXCEPT !.pc = "create", !.setKey = CreateJobKey(req[r].msg)]]
  /\ hist' = [hist EXCEPT ![r] =
                [h EXCEPT !.sent = Append(@, Call(Endpoint(req[r].msg), NoJob, Holds(r)))]]

\* getCallback calling the caller back on a read error and again after the unlock
getCallback_CallsBackTwice(r) ==
  /\ req[r].pc = "get"
  /\ UNCHANGED <<settings, user, locks, db>>
  /\ \/ /\ req' = [req EXCEPT ![r] = Unlock(@, "GetError", NoRes)]
        /\ hist' = [hist EXCEPT ![r] =
                      Fn([@ EXCEPT !.lookup = "error", !.unlocks = @ + 1], "GetError", NoRes)]
     \/ LET jobId == Get(req[r].jobKey)
        IN IF jobId # NoJob
           THEN addToExisting(r, jobId, [hist[r] EXCEPT !.lookup = jobId])
           ELSE createNewJob(r, [hist[r] EXCEPT !.lookup = jobId])

\* getCallback appending whatever the lookup returned, a missing job id too
getCallback_AlwaysAppend(r) ==
  /\ req[r].pc = "get"
  /\ UNCHANGED <<settings, user, locks, db>>
  /\ \/ /\ req' = [req EXCEPT ![r] = Unlock(@, "GetError", NoRes)]
        /\ hist' = [hist EXCEPT ![r] = [@ EXCEPT !.lookup = "error", !.unlocks = @ + 1]]
     \/ LET jobId == Get(req[r].jobKey)
        IN addToExisting(r, jobId, [hist[r] EXCEPT !.lookup = jobId])

\* getCallback taking a failed read for a missing record
getCallback_IgnoreError(r) ==
  /\ req[r].pc = "get"
  /\ UNCHANGED <<settings, user, locks, db>>
  /\ \/ createNewJob(r, [hist[r] EXCEPT !.lookup = "error"])
     \/ LET jobId == Get(req[r].jobKey)
        IN IF jobId # NoJob
           THEN addToExisting(r, jobId, [hist[r] EXCEPT !.lookup = jobId])
           ELSE createNewJob(r, [hist[r] EXCEPT !.lookup = jobId])

\* the reply of redis.get: an error unlocks, a job id appends, nothing creates
getCallback(r) ==
  /\ req[r].pc = "get"
  /\ UNCHANGED <<settings, user, locks, db>>
  /\ \/ /\ req' = [req EXCEPT ![r] = Unlock(@, "GetError", NoRes)]
        /\ hist' = [hist EXCEPT ![r] = [@ EXCEPT !.lookup = "error", !.unlocks = @ + 1]]
     \/ LET jobId == Get(req[r].jobKey)
        IN IF jobId # NoJob
           THEN addToExisting(r, jobId, [hist[r] EXCEPT !.lookup = jobId])
           ELSE createNewJob(r, [hist[r] EXCEPT !.lookup = jobId])

\* appendEnd writing the record again, with a new expiry, when the append succeeds
appendEnd_Refresh(r) ==
  /\ req[r].pc = "append"
  /\ UNCHANGED <<settings, user, locks>>
  /\ \/ /\ db' = db
        /\ createNewJob(r, [hist[r] EXCEPT !.sent = Answered(@, "err")])
     \/ /\ db' = Put(req[r].jobKey, req[r].jobId, JobWindow)
        /\ req' = [req EXCEPT ![r] = Unlock(@, NoErr, [kind |-> "append", id |-> req[r].jobId])]
        /\ hist' = [hist EXCEPT ![r] = [@ EXCEPT !.sent = Answered(@, "ok"), !.unlocks = @ + 1]]

\* appendEnd handing the append's error to the caller
appendEnd_SurfaceError(r) ==
  /\ req[r].pc = "append"
  /\ UNCHANGED <<settings, user, locks, db>>
  /\ \E ok \in BOOLEAN :
       /\ req' = [req EXCEPT ![r] = Unlock(@, IF ok THEN NoErr ELSE "AppendError",
                     [kind |-> "append", id |-> req[r].jobId])]
       /\ hist' = [hist EXCEPT ![r] = [@ EXCEPT
                     !.sent = Answered(@, IF ok THEN "ok" ELSE "err"), !.unlocks = @ + 1]]

\* appendEnd with the lock released before the fallback create is sent
appendEnd_UnlockFirst(r) ==
  /\ req[r].pc = "append"
  /\ UNCHANGED <<settings, user, db>>
  /\ \/ /\ locks' = locks \ {<<req[r].key, r>>}
        /\ createNewJob(r, [hist[r] EXCEPT !.sent = Answered(@, "err")])
     \/ /\ locks' = locks
        /\ req' = [req EXCEPT ![r] = Unlock(@, NoErr, [kind |-> "append", id |-> req[r].jobId])]
        /\ hist' = [hist EXCEPT ![r] = [@ EXCEPT !.sent = Answered(@, "ok"), !.unlocks = @ + 1]]

\* the reply to the append: an error falls back to createNewJob
appendEnd(r) ==
  /\ req[r].pc = "append"
  /\ UNCHANGED <<settings, user, locks, db>>
  /\ \/ createNewJob(r, [hist[r] EXCEPT !.sent = Answered(@, "err")])
     \/ /\ req' = [req EXCEPT ![r] = Unlock(@, NoErr, [kind |-> "append", id |-> req[r].jobId])]
        /\ hist' = [hist EXCEPT ![r] = [@ EXCEPT !.sent = Answered(@, "ok"), !.unlocks = @ + 1]]

\* createEnd removing the record of the job key when the create fails
createEnd_DeleteOnError(r) ==
  /\ req[r].pc = "create"
  /\ UNCHANGED <<settings, user, locks>>
  /\ \/ /\ db' = { e \in db : e.key # req[r].setKey }
        /\ req' = [req EXCEPT ![r] = Unlock(@, "CreateError", [kind |-> "create", id |-> NoJob])]
        /\ hist' = [hist EXCEPT ![r] = [@ EXCEPT !.sent = Answered(@, "err"), !.unlocks = @ + 1]]
     \/ \E closing_at \in ClosingAts :
        /\ db' = db
        /\ req' = [req EXCEPT ![r] = [@ EXCEPT !.pc = "set",
                      !.res = [kind |-> "create", id |-> JobName(r, Len(hist[r].sent))],
                      !.closing_at = closing_at,
                      !.expiration = Expiration(T0, closing_at)]]
        /\ hist' = [hist EXCEPT ![r] = [@ EXCEPT !.sent = Answered(@, "ok"), !.writes = @ + 1]]

\* createEnd trying the create again when it fails
createEnd_Retry(r) ==
  /\ req[r].pc = "create"
  /\ UNCHANGED <<settings, user, locks, db>>
  /\ \/ createNewJob(r, [hist[r] EXCEPT !.sent = Answered(@, "err")])
     \/ \E closing_at \in ClosingAts :
        /\ req' = [req EXCEPT ![r] = [@ EXCEPT !.pc = "set",
                      !.res = [kind |-> "create", id |-> JobName(r, Len(hist[r].sent))],
                      !.closing_at = closing_at,
                      !.expiration = Expiration(T0, closing_at)]]
        /\ hist' = [hist EXCEPT ![r] = [@ EXCEPT !.sent = Answered(@, "ok"), !.writes = @ + 1]]

\* createEnd calling back on an error without unlocking
createEnd_NoUnlock(r) ==
  /\ req[r].pc = "create"
  /\ UNCHANGED <<settings, user, locks, db>>
  /\ \/ /\ req' = [req EXCEPT ![r] = Done(@)]
        /\ hist' = [hist EXCEPT ![r] = Fn([@ EXCEPT !.sent = Answered(@, "err")], "CreateError",
                                          [kind |-> "create", id |-> NoJob])]
     \/ \E closing_at \in ClosingAts :
        /\ req' = [req EXCEPT ![r] = [@ EXCEPT !.pc = "set",
                      !.res = [kind |-> "create", id |-> JobName(r, Len(hist[r].sent))],
                      !.closing_at = closing_at,
                      !.expiration = Expiration(T0, closing_at)]]
        /\ hist' = [hist EXCEPT ![r] = [@ EXCEPT !.sent = Answered(@, "ok"), !.writes = @ + 1]]

\* the reply to the create: an error unlocks, a job is stored in the directory
createEnd(r) ==
  /\ req[r].pc = "create"
  /\ UNCHANGED <<settings, user, locks, db>>
  /\ \/ /\ req' = [req EXCEPT ![r] = Unlock(@, "CreateError", [kind |-> "create", id |-> NoJob])]
        /\ hist' = [hist EXCEPT ![r] = [@ EXCEPT !.sent = Answered(@, "err"), !.unlocks = @ + 1]]
     \/ \E closing_at \in ClosingAts :
        /\ req' = [req EXCEPT ![r] = [@ EXCEPT !.pc = "set",
                      !.res = [kind |-> "create", id |-> JobName(r, Len(hist[r].sent))],
                      !.closing_at = closing_at,
                      !.expiration = Expiration(T0, closing_at)]]
        /\ hist' = [hist EXCEPT ![r] = [@ EXCEPT !.sent = Answered(@, "ok"), !.writes = @ + 1]]

\* setCallback handing the store's error to the caller
setCallback_SurfaceError(r) ==
  /\ req[r].pc = "set"
  /\ UNCHANGED <<settings, user, locks>>
  /\ \/ /\ ValidPx(req[r].expiration)
        /\ db' = Put(req[r].setKey, req[r].res.id, req[r].expiration)
        /\ req' = [req EXCEPT ![r] = Unlock(Stored(@), NoErr, req[r].res)]
        /\ hist' = [hist EXCEPT ![r] = [@ EXCEPT !.unlocks = @ + 1]]
     \/ /\ db' = db
        /\ req' = [req EXCEPT ![r] = Unlock(Stored(@), "SetError", NoRes)]
        /\ hist' = [hist EXCEPT ![r] = [@ EXCEPT
                      !.writeFailed = IF ValidPx(req[r].expiration) THEN "unreachable" ELSE "rejected",
                      !.unlocks = @ + 1]]

\* the reply of redis.set, whose error is ignored.  The store overwrites the
\* record, rejects the expiry, or cannot be reached.
setCallback(r) ==
  /\ req[r].pc = "set"
  /\ UNCHANGED <<settings, user, locks>>
  /\ req' = [req EXCEPT ![r] = Unlock(Stored(@), NoErr, req[r].res)]
  /\ \/ /\ ValidPx(req[r].expiration)
        /\ db' = Put(req[r].setKey, req[r].res.id, req[r].expiration)
        /\ hist' = [hist EXCEPT ![r] = [@ EXCEPT !.unlocks = @ + 1]]
     \/ /\ ~ValidPx(req[r].expiration)
        /\ db' = db
        /\ hist' = [hist EXCEPT ![r] = [@ EXCEPT !.writeFailed = "rejected", !.unlocks = @ + 1]]
     \/ /\ db' = db
        /\ hist' = [hist EXCEPT ![r] = [@ EXCEPT !.writeFailed = "unreachable", !.unlocks = @ + 1]]

(* --------------------------- the other replies -------------------------- *)

\* the reply to POST /users
usersEnd(r) ==
  /\ req[r].pc = "users"
  /\ UNCHANGED <<settings, user, locks, db>>
  /\ \E ok \in BOOLEAN :
       /\ req' = [req EXCEPT ![r] = Unlock(@, IF ok THEN NoErr ELSE "UsersError",
                     [kind |-> "users", id |-> NoJob])]
       /\ hist' = [hist EXCEPT ![r] = [@ EXCEPT
                     !.sent = Answered(@, IF ok THEN "ok" ELSE "err"), !.unlocks = @ + 1]]

\* the reply to unlock: the lock is free and the caller is called back
unlockCallback(r) ==
  /\ req[r].pc = "unlock"
  /\ locks' = locks \ {<<req[r].key, r>>}
  /\ req' = [req EXCEPT ![r] = Done(@)]
  /\ hist' = [hist EXCEPT ![r] = Fn(@, req[r].err, req[r].res)]
  /\ UNCHANGED <<settings, user, db>>

\* the reply to trackV1's POST /events goes to the caller
eventsEnd(r) ==
  /\ req[r].pc = "events"
  /\ UNCHANGED <<settings, user, locks, db>>
  /\ \E ok \in BOOLEAN :
       /\ req' = [req EXCEPT ![r] = Done(@)]
       /\ hist' = [hist EXCEPT ![r] = Fn([@ EXCEPT !.sent = Answered(@, IF ok THEN "ok" ELSE "err")],
                     IF ok THEN NoErr ELSE "EventsError",
                     [kind |-> "events", id |-> NoJob])]

\* the reply to groupV1's POST /companies: an error goes to the caller, else
\* the group is sent on as an identify carrying the group's userId
companiesEnd(r) ==
  /\ req[r].pc = "companies"
  /\ UNCHANGED <<settings, user, locks, db>>
  /\ \/ /\ req' = [req EXCEPT ![r] = Done(@)]
        /\ hist' = [hist EXCEPT ![r] = Fn([@ EXCEPT !.sent = Answered(@, "err")],
                      "CompaniesError", NoRes)]
     \/ LET identify == [userId |-> req[r].msg.userId, email |-> NoStr, action |-> "identify"]
        IN /\ req' = [req EXCEPT ![r] = [@ EXCEPT !.pc = "lock", !.handler = "identifyV1",
                         !.msg = identify, !.key = UserLockKey(identify)]]
           /\ hist' = [hist EXCEPT ![r].sent = Answered(@, "ok")]

(* ---------------------------- specification ----------------------------- *)

Next ==
  \/ \E r \in Req, m \in Msgs : ensure(r, m)
  \/ \E r \in Req, m \in Msgs : identifyV2(r, m)
  \/ \E r \in Req, m \in Msgs : groupV2(r, m)
  \/ \E r \in Req, m \in Msgs : trackV2(r, m)
  \/ \E r \in Req, m \in Msgs : identifyV1(r, m)
  \/ \E r \in Req, m \in Msgs : groupV1(r, m)
  \/ \E r \in Req, m \in Msgs : trackV1(r, m)
  \/ \E r \in Req : lockGranted(r)
  \/ \E r \in Req : lockFailed(r)
  \/ \E r \in Req : getCallback(r)
  \/ \E r \in Req : appendEnd(r)
  \/ \E r \in Req : createEnd(r)
  \/ \E r \in Req : setCallback(r)
  \/ \E r \in Req : usersEnd(r)
  \/ \E r \in Req : unlockCallback(r)
  \/ \E r \in Req : eventsEnd(r)
  \/ \E r \in Req : companiesEnd(r)

Spec == Init /\ [][Next]_vars

\* the reply a request waits for arrives: the lock, the store and the upstream
\* answer every operation
Reply(r) ==
  \/ lockGranted(r) \/ lockFailed(r)
  \/ getCallback(r) \/ setCallback(r) \/ unlockCallback(r)
  \/ appendEnd(r) \/ createEnd(r) \/ usersEnd(r) \/ eventsEnd(r) \/ companiesEnd(r)

FairSpec == Spec /\ \A r \in Req : WF_vars(Reply(r))

TypeOK ==
  /\ \A r \in Req : req[r].pc \in {"idle", "lock", "get", "append", "create", "set",
                                   "users", "unlock", "events", "companies", "done",
                                   "validated"}
  /\ \A r \in Req : Len(hist[r].sent) <= 2

(* ------------------------ what a request has sent ----------------------- *)

Last(s) == s[Len(s)]

Bulk(c) == c.endpoint \in {"/bulk/users", "/bulk/events"}
IsAppend(c) == Bulk(c) /\ c.job # NoJob
IsCreate(c) == Bulk(c) /\ c.job = NoJob

Appends(r) == Cardinality({ i \in 1..Len(hist[r].sent) : IsAppend(hist[r].sent[i]) })
Creates(r) == Cardinality({ i \in 1..Len(hist[r].sent) : IsCreate(hist[r].sent[i]) })

\* the upstream writes made under a lock key: POST /users and POST /bulk/...
IsWrite(c) == c.endpoint = "/users" \/ Bulk(c)
Wrote(r) == \E i \in 1..Len(hist[r].sent) : IsWrite(hist[r].sent[i])
Writing(r) == InFlight(r) /\ IsWrite(Last(hist[r].sent))

\* the request was called back
Called(r) == hist[r].callbacks >= 1

\* the directory lookup of the request found a record
Hit(r) == hist[r].lookup \notin {"unread", "error", NoJob}

SameLockKey(r1, r2) == r1 # r2 /\ req[r1].key # NoKey /\ req[r1].key = req[r2].key

(* -------------------------------- claims -------------------------------- *)

\* C1: of two requests that share a lock key (an identify and a track of one
\* user among them) at most one has an upstream write in flight, and while one
\* has, the other has either sent no write yet or has sent its last one
C1_WritesSerialized ==
  \A r1, r2 \in Req :
    (SameLockKey(r1, r2) /\ Writing(r1)) =>
       /\ ~Writing(r2)
       /\ ~Wrote(r2) \/ req[r2].pc \in {"unlock", "done"}

\* an identify has its POST /users in flight while a track of the same user
\* waits for the lock
C1_Witness ==
  \E r1, r2 \in Req :
    /\ SameLockKey(r1, r2)
    /\ req[r1].handler = "identifyV2" /\ Writing(r1)
    /\ req[r2].handler = "trackV2" /\ req[r2].pc = "lock"

\* C2: a track or group request that acquired its lock calls unlock at most
\* once, has called it exactly once when its caller is called back, and no
\* request is over while it holds a lock
C2_UnlockedOnce ==
  /\ \A r \in Req :
       (req[r].entry \in {"track", "group"} /\ hist[r].acquired) =>
          /\ hist[r].unlocks <= 1
          /\ req[r].pc = "unlock" => hist[r].unlocks = 1
          /\ Called(r) => hist[r].unlocks = 1
  /\ \A p \in locks : req[p[2]].pc # "done"

\* a track request is over whose append failed and whose fallback create failed
C2_Witness ==
  \E r \in Req :
    /\ req[r].entry = "track" /\ req[r].pc = "done" /\ hist[r].acquired
    /\ Len(hist[r].sent) = 2
    /\ hist[r].sent[1].status = "err" /\ hist[r].sent[2].status = "err"

\* C3 as stated: every upstream request of every entry point, under either
\* value of isBulkAPIEnabled, is sent and answered while its sender holds its lock
C3_AllSentUnderLock ==
  \A r \in Req : \A i \in 1..Len(hist[r].sent) :
    /\ hist[r].sent[i].locked
    /\ hist[r].sent[i].status = "inflight" => Holds(r)

\* C3, amended: with isBulkAPIEnabled unset every upstream request is sent and
\* answered under the sender's lock; with it set that holds of POST /users
\* only, while track's POST /events and group's POST /companies are sent with
\* no lock held
C3_LockedUnlessV1 ==
  \A r \in Req : \A i \in 1..Len(hist[r].sent) :
    LET c == hist[r].sent[i]
        under == c.locked /\ (c.status = "inflight" => Holds(r))
    IN IF settings.isBulkAPIEnabled
       THEN /\ c.endpoint \in {"/users", "/events", "/companies"}
            /\ c.endpoint = "/users" => under
            /\ c.endpoint # "/users" => ~c.locked
       ELSE /\ c.endpoint \in {"/users", "/bulk/users", "/bulk/events"}
            /\ under

\* with isBulkAPIEnabled set, a group request has sent POST /companies with no
\* lock and has its POST /users in flight under the lock
C3_Witness ==
  \E r \in Req :
    /\ settings.isBulkAPIEnabled /\ req[r].entry = "group"
    /\ Len(hist[r].sent) = 2 /\ Holds(r)
    /\ ~hist[r].sent[1].locked /\ hist[r].sent[1].endpoint = "/companies"
    /\ hist[r].sent[2].locked /\ hist[r].sent[2].status = "inflight"

\* C4: a request whose directory lookup found no record has sent exactly one
\* create and no append
C4_MissCreatesOnce ==
  \A r \in Req :
    hist[r].lookup = NoJob => (Creates(r) = 1 /\ Appends(r) = 0 /\ Len(hist[r].sent) = 1)

\* a group request is over whose lookup found no record
C4_Witness ==
  \E r \in Req :
    /\ req[r].entry = "group" /\ req[r].pc = "done"
    /\ hist[r].lookup = NoJob /\ hist[r].sent[1].status = "ok"

\* C5: a request whose lookup found job J first sends an append carrying J,
\* sends a create only after that append failed, and once the create has
\* succeeded and the store has answered the write, the record under the key it
\* looked up holds the new job id
C5_AppendThenCreateRecorded ==
  \A r \in Req :
    Hit(r) =>
      /\ IsAppend(hist[r].sent[1]) /\ hist[r].sent[1].job = hist[r].lookup
      /\ \A i \in 1..Len(hist[r].sent) :
           IsCreate(hist[r].sent[i]) => (i = 2 /\ hist[r].sent[1].status = "err")
      /\ ( /\ req[r].pc = "unlock"
           /\ Len(hist[r].sent) = 2 /\ hist[r].sent[2].status = "ok"
           /\ hist[r].writeFailed # "unreachable" )
         => ( /\ Get(req[r].jobKey) = req[r].res.id
              /\ Get(req[r].jobKey) # hist[r].lookup )

UpstreamErrors == {"AppendError", "CreateError", "UsersError", "EventsError", "CompaniesError"}

\* C6: no caller receives an append's error; a request whose append failed and
\* whose create succeeded calls back with no error and the create's response;
\* an upstream error a bulk request calls back with is that of its failed create
C6_AppendErrorAbsorbed ==
  \A r \in Req :
    /\ hist[r].cbErr # "AppendError"
    /\ ( /\ Called(r) /\ Len(hist[r].sent) = 2
         /\ IsAppend(hist[r].sent[1]) /\ hist[r].sent[1].status = "err"
         /\ IsCreate(hist[r].sent[2]) /\ hist[r].sent[2].status = "ok" )
       => ( /\ hist[r].cbErr = NoErr
            /\ hist[r].cbRes = [kind |-> "create", id |-> JobName(r, 2)] )
    /\ ( /\ Called(r) /\ hist[r].lookup # "unread"
         /\ hist[r].cbErr \in UpstreamErrors )
       => ( /\ hist[r].cbErr = "CreateError"
            /\ IsCreate(Last(hist[r].sent)) /\ Last(hist[r].sent).status = "err" )

\* a track request was called back with no error after its append to J0 failed
\* and its create succeeded
C6_Witness ==
  \E r \in Req :
    /\ req[r].entry = "track" /\ Called(r) /\ hist[r].cbErr = NoErr
    /\ Len(hist[r].sent) = 2
    /\ hist[r].sent[1].job = SeedJob /\ hist[r].sent[1].status = "err"
    /\ hist[r].sent[2].status = "ok"

\* C7: a failed create is the last upstream request of its request, which then
\* writes nothing, unlocks, and calls back with the create's error; a request
\* sends at most one append and at most one create
C7_CreateFailureTerminal ==
  \A r \in Req :
    /\ Appends(r) <= 1
    /\ Creates(r) <= 1
    /\ \A i \in 1..Len(hist[r].sent) :
         (IsCreate(hist[r].sent[i]) /\ hist[r].sent[i].status = "err") =>
            /\ i = Len(hist[r].sent)
            /\ hist[r].writes = 0
            /\ hist[r].unlocks = 1
            /\ Called(r) => (hist[r].cbErr = "CreateError" /\ ~Holds(r))

\* a group request is over whose first upstream request, a create, failed
C7_Witness ==
  \E r \in Req :
    /\ req[r].entry = "group" /\ req[r].pc = "done"
    /\ Len(hist[r].sent) = 1 /\ IsCreate(hist[r].sent[1]) /\ hist[r].sent[1].status = "err"

\* C8 as stated: a request whose lock acquisition failed calls back with that
\* error and has read nothing, written nothing and sent nothing upstream
C8_LockFailureTouchesNothing ==
  \A r \in Req :
    hist[r].lockFailed =>
      /\ hist[r].cbErr = "LockError"
      /\ hist[r].reads = 0 /\ hist[r].writes = 0
      /\ hist[r].sent = <<>>

\* C8, amended: a request whose lock acquisition failed calls back with that
\* error, has read and written nothing, and has sent nothing upstream but the
\* POST /companies that group, with isBulkAPIEnabled set, sends and has
\* answered before it asks for the lock
C8_LockFailureStops ==
  \A r \in Req :
    hist[r].lockFailed =>
      /\ Called(r) /\ hist[r].cbErr = "LockError" /\ req[r].pc = "done"
      /\ hist[r].reads = 0 /\ hist[r].writes = 0
      /\ IF settings.isBulkAPIEnabled /\ req[r].entry = "group"
         THEN hist[r].sent = <<[endpoint |-> "/companies", job |-> NoJob,
                                locked |-> FALSE, status |-> "ok"]>>
         ELSE hist[r].sent = <<>>

\* a track request was refused the lock that an identify of the same user holds
C8_Witness ==
  \E r1, r2 \in Req :
    /\ SameLockKey(r1, r2) /\ Holds(r1)
    /\ req[r2].handler = "trackV2" /\ hist[r2].lockFailed /\ Called(r2)

\* C9: a request whose directory read failed sends no upstream request, writes
\* nothing, unlocks once, and calls back with the read error, its lock released
C9_ReadFailureAborts ==
  \A r \in Req :
    hist[r].lookup = "error" =>
      /\ hist[r].sent = <<>>
      /\ hist[r].writes = 0
      /\ hist[r].unlocks = 1
      /\ req[r].pc \in {"unlock", "done"}
      /\ Called(r) => (hist[r].cbErr = "GetError" /\ ~Holds(r))

\* a track request is over whose directory read failed
C9_Witness ==
  \E r \in Req :
    /\ req[r].entry = "track" /\ req[r].pc = "done" /\ hist[r].acquired
    /\ hist[r].lookup = "error" /\ hist[r].cbErr = "GetError"

\* C10: a request whose create succeeded and whose directory write failed
\* unlocks and calls back with no error and the create's response
C10_WriteFailureIgnored ==
  \A r \in Req :
    hist[r].writeFailed # "no" =>
      /\ Last(hist[r].sent).status = "ok" /\ IsCreate(Last(hist[r].sent))
      /\ hist[r].unlocks = 1
      /\ Called(r) =>
           /\ hist[r].cbErr = NoErr
           /\ hist[r].cbRes = [kind |-> "create", id |-> JobName(r, Len(hist[r].sent))]
           /\ ~Holds(r)

\* a track request is over whose create succeeded and whose directory write
\* the store could not take
C10_Witness ==
  \E r \in Req :
    /\ req[r].entry = "track" /\ req[r].pc = "done"
    /\ hist[r].writeFailed = "unreachable" /\ hist[r].cbRes.kind = "create"

\* the time left until the job closes, in milliseconds, for a closing time the
\* upstream reports as a millisecond timestamp or as a unix timestamp in seconds
TimeLeft(now, closing_at) ==
  IF closing_at > now THEN closing_at - now ELSE closing_at * 1000 - now

\* C11: when a create has succeeded with a closing time later than now, the
\* expiry handed to the directory write is one the store accepts (a positive
\* number of milliseconds) and is strictly less than the time left until the
\* job closes
C11_TtlBelowClosingWindow ==
  \A r \in Req :
    (req[r].pc = "set" /\ req[r].closing_at # undefined) =>
       /\ ValidPx(req[r].expiration)
       /\ req[r].expiration < TimeLeft(T0, req[r].closing_at)

\* the request is over and nothing failed on its way: it got its lock, its
\* directory read and every upstream request succeeded, the store was reachable
NoFailure(r) ==
  /\ req[r].pc = "done" /\ hist[r].cbErr = NoErr
  /\ ~hist[r].lockFailed /\ hist[r].lookup \notin {"unread", "error"}
  /\ \A i \in 1..Len(hist[r].sent) : hist[r].sent[i].status = "ok"
  /\ hist[r].writeFailed # "unreachable"

\* C12: of two track requests of one user that ran with no failure, one of
\* which found no record, exactly one sent a create, and the other sent only an
\* append carrying the job id that create returned
C12_OneCreateThenAppend ==
  \A r1, r2 \in Req :
    ( /\ r1 # r2
      /\ req[r1].handler = "trackV2" /\ req[r2].handler = "trackV2"
      /\ NoFailure(r1) /\ NoFailure(r2)
      /\ hist[r1].lookup = NoJob )
    => ( /\ Creates(r1) = 1 /\ Creates(r2) = 0
         /\ Appends(r2) = 1 /\ hist[r2].sent[1].job = JobName(r1, 1) )

\* a group request and an identify or track request (of the one user of the
\* run) that have both computed a lock key
GroupAndUser(r1, r2) ==
  /\ req[r1].entry = "group" /\ req[r2].entry \in {"identify", "track"}
  /\ req[r1].key # NoKey /\ req[r2].key # NoKey

\* C13 as stated: under either value of isBulkAPIEnabled, a group request and
\* an identify or track request of the same user have different lock keys, so
\* the group never waits for a lock the other holds, nor the other for the
\* group's
C13_GroupLockApart ==
  \A r1, r2 \in Req :
    GroupAndUser(r1, r2) =>
      /\ req[r1].key # req[r2].key
      /\ req[r1].pc = "lock" => <<req[r1].key, r2>> \notin locks
      /\ req[r2].pc = "lock" => <<req[r2].key, r1>> \notin locks

\* C13, amended: with isBulkAPIEnabled unset the group's lock key differs from
\* the key of identify and track, and neither waits for a lock the other
\* holds; with it set track computes no lock key, and the group of a user that
\* has a userId asks, once its POST /companies is answered, for the very key
\* identify uses
C13_GroupLockApartV2 ==
  \A r1, r2 \in Req :
    IF settings.isBulkAPIEnabled
    THEN /\ req[r2].entry = "track" => req[r2].key = NoKey
         /\ (GroupAndUser(r1, r2) /\ user.userId # NoStr) => req[r1].key = req[r2].key
    ELSE GroupAndUser(r1, r2) =>
           /\ req[r1].key # req[r2].key
           /\ req[r1].pc = "lock" => <<req[r1].key, r2>> \notin locks
           /\ req[r2].pc = "lock" => <<req[r2].key, r1>> \notin locks

\* with isBulkAPIEnabled unset, a group and a track of the same user both hold
\* their locks and both have an upstream request in flight
C13_Witness ==
  \E r1, r2 \in Req :
    /\ ~settings.isBulkAPIEnabled
    /\ req[r1].handler = "groupV2" /\ req[r2].handler = "trackV2"
    /\ req[r1].msg.userId = req[r2].msg.userId /\ req[r1].msg.email = req[r2].msg.email
    /\ Holds(r1) /\ Holds(r2)
    /\ InFlight(r1) /\ InFlight(r2)

\* the settings carry neither an oauth access token nor both apiKey and appId
LacksCredentials ==
  /\ ~(settings.oauth.present /\ settings.oauth.access_token # NoStr)
  /\ ~(settings.apiKey # NoStr /\ settings.appId # NoStr)

\* the messages submitted in this run carry neither a userId nor an email
LacksIdentity == user.userId = NoStr /\ user.email = NoStr

InvalidErrors == { ".apiKey and .appId is required if .oauth['access-token'] is absent",
                   ".userId or .email is required" }

\* C14 as stated: a request whose settings lack the credentials or whose
\* message lacks both userId and email, be it handed to the validators or to
\* identify, track or group, has asked for no lock, read and written nothing
\* in the directory and sent nothing upstream
C14_InvalidRejectedFirst ==
  \A r \in Req :
    (req[r].pc # "idle" /\ (LacksCredentials \/ LacksIdentity)) =>
       /\ req[r].key = NoKey /\ ~hist[r].acquired /\ ~hist[r].lockFailed
       /\ hist[r].reads = 0 /\ hist[r].writes = 0
       /\ hist[r].sent = <<>>

\* C14, amended: the validators, run on a message, give an invalid error
\* exactly when the settings lack the credentials or the message lacks both
\* userId and email, and running them asks for no lock, touches no record and
\* sends nothing; identify, track and group run no validator, and on any
\* message, such a one too, each at once asks for its lock or sends upstream
C14_ValidatorsReject ==
  \A r \in Req :
    /\ req[r].pc = "validated" =>
         /\ hist[r].validation \in InvalidErrors <=> (LacksCredentials \/ LacksIdentity)
         /\ hist[r].validation \notin InvalidErrors => hist[r].validation = Valid
         /\ req[r].key = NoKey /\ ~hist[r].acquired /\ ~hist[r].lockFailed
         /\ hist[r].reads = 0 /\ hist[r].writes = 0
         /\ hist[r].sent = <<>> /\ hist[r].callbacks = 0
    /\ req[r].pc \notin {"idle", "validated"} =>
         /\ hist[r].validation = "none"
         /\ req[r].key # NoKey \/ Len(hist[r].sent) >= 1

\* the validators have rejected a track message with neither userId nor
\* email, and a track with the same message, handed to the handler, holds the
\* lock of the empty identity with its bulk request in flight
C14_Witness ==
  \E r1, r2 \in Req :
    /\ ~LacksCredentials /\ LacksIdentity
    /\ req[r1].pc = "validated" /\ req[r1].msg.action = "track"
    /\ hist[r1].validation = ".userId or .email is required"
    /\ req[r2].handler = "trackV2" /\ req[r2].msg = req[r1].msg
    /\ req[r2].key = "fcxywseo:" /\ Holds(r2) /\ InFlight(r2)

\* a track request with no userId has the email as the identity in its lock
\* key, in the job key it looks up and in the job key it writes
EmailKeys(r) ==
  (req[r].handler = "trackV2" /\ req[r].msg.userId = NoStr) =>
     /\ req[r].key = Join(<<settings.appId, req[r].msg.email>>)
     /\ req[r].jobKey \in {NoKey, Join(<<settings.appId, "jobs", "events", req[r].msg.email>>)}
     /\ req[r].setKey \in {NoKey, Join(<<settings.appId, "jobs", "events", req[r].msg.email>>)}
     /\ req[r].pc \in {"get", "append", "create", "set"} => req[r].jobKey # NoKey
     /\ req[r].pc \in {"create", "set"} => req[r].setKey = req[r].jobKey

\* C15: track requests with no userId derive their lock key and their job key
\* (looked up and written) from the email, and two of them with the same email
\* that ran with no failure, the first finding no record, coalesce: the second
\* sends no create and appends to the job the first one created
C15_EmailCoalesces ==
  /\ \A r \in Req : EmailKeys(r)
  /\ \A r1, r2 \in Req :
       ( /\ r1 # r2
         /\ req[r1].handler = "trackV2" /\ req[r2].handler = "trackV2"
         /\ req[r1].msg.userId = NoStr /\ req[r2].msg.userId = NoStr
         /\ req[r1].msg.email = req[r2].msg.email
         /\ NoFailure(r1) /\ NoFailure(r2)
         /\ hist[r1].lookup = NoJob )
       => ( /\ req[r1].key = req[r2].key
            /\ Creates(r2) = 0
            /\ hist[r2].lookup = JobName(r1, 1)
            /\ hist[r2].sent = <<[endpoint |-> "/bulk/events", job |-> JobName(r1, 1),
                                  locked |-> TRUE, status |-> "ok"]>> )

\* C16: while a request holds a lock key (from the grant of the lock to the
\* reply of its unlock, its upstream requests and its directory write and the
\* write's reply in between), any other request with the same lock key has
\* either not begun its directory lookup or was over before; and a request
\* that is over has every upstream request answered and its lock released
C16_LookupAfterUnlock ==
  /\ \A r1, r2 \in Req :
       (SameLockKey(r1, r2) /\ Holds(r1)) =>
          \/ req[r2].pc = "lock" /\ hist[r2].reads = 0 /\ ~Holds(r2)
          \/ req[r2].pc = "done"
  /\ \A r \in Req :
       (req[r].pc = "done" /\ hist[r].acquired) =>
          /\ ~InFlight(r) /\ ~Holds(r) /\ hist[r].unlocks = 1
          /\ hist[r].writes = 1 => Last(hist[r].sent).status = "ok"

\* a track request has its directory lookup pending after another track
\* request of the same user has created a job, had its directory write
\* answered and unlocked
C16_Witness ==
  \E r1, r2 \in Req :
    /\ SameLockKey(r1, r2)
    /\ req[r1].handler = "trackV2" /\ req[r1].pc = "done"
    /\ hist[r1].writes = 1 /\ hist[r1].unlocks = 1
    /\ req[r2].handler = "trackV2" /\ req[r2].pc = "get" /\ hist[r2].reads = 1

\* the lock key under which the job key of a message is written: the group
\* key for the jobs of users, the user key for the jobs of events
LockKeyFor(m) == IF DataType(m) = "users" THEN GroupLockKey(m) ELSE UserLockKey(m)

\* C17: a request whose directory write is issued and not yet answered holds
\* its lock, the key it writes is the job key of its message and the lock it
\* holds is the one that goes with that job key; and two requests that have
\* issued a write of the same job key had the same lock key
C17_WriteUnderItsLock ==
  /\ \A r \in Req :
       req[r].pc = "set" =>
          /\ Holds(r)
          /\ req[r].setKey = CreateJobKey(req[r].msg) /\ req[r].setKey = req[r].jobKey
          /\ req[r].key = LockKeyFor(req[r].msg)
  /\ \A r1, r2 \in Req :
       ( /\ hist[r1].writes >= 1 /\ hist[r2].writes >= 1
         /\ CreateJobKey(req[r1].msg) = CreateJobKey(req[r2].msg) )
       => req[r1].key = req[r2].key

\* a group request has its directory write pending under its lock after a
\* track request of the same user has written the directory
C17_Witness ==
  \E r1, r2 \in Req :
    /\ req[r1].handler = "trackV2" /\ hist[r1].writes = 1 /\ req[r1].pc = "done"
    /\ req[r2].handler = "groupV2" /\ req[r2].pc = "set" /\ Holds(r2)
    /\ req[r1].msg.userId = req[r2].msg.userId /\ req[r1].msg.email = req[r2].msg.email

\* the request's only upstream request is an append, answered with success
AppendedOk(h) ==
  /\ Len(h.sent) = 1 /\ IsAppend(h.sent[1]) /\ h.sent[1].status = "ok"

\* C18: a request whose append succeeded issues no directory write and sends
\* nothing more, and its caller is called back with no error and the append's
\* response; and from the reply of the append to the reply of the unlock no
\* step changes the record (job id and expiry) under the request's job key
C18_AppendLeavesRecord ==
  /\ [](\A r \in Req :
          AppendedOk(hist[r]) =>
             /\ hist[r].writes = 0 /\ hist[r].writeFailed = "no"
             /\ req[r].pc \in {"unlock", "done"}
             /\ req[r].pc = "unlock" => Get(req[r].jobKey) = hist[r].lookup
             /\ Called(r) => /\ hist[r].cbErr = NoErr
                             /\ hist[r].cbRes = [kind |-> "append", id |-> hist[r].lookup])
  /\ [][\A r \in Req :
          (req[r].pc \in {"append", "unlock"} /\ AppendedOk(hist'[r])) =>
             {e \in db' : e.key = req[r].jobKey} = {e \in db : e.key = req[r].jobKey}]_vars

\* a track request is over whose append to the job found in the directory
\* succeeded, the record still in the directory
C18_Witness ==
  \E r \in Req :
    /\ req[r].handler = "trackV2" /\ req[r].pc = "done"
    /\ AppendedOk(hist[r]) /\ hist[r].sent[1].job = SeedJob
    /\ hist[r].cbRes = [kind |-> "append", id |-> SeedJob]
    /\ Get(TrackJobKey(req[r].msg)) = SeedJob

\* C19: when a create has succeeded with no closing time in its response, the
\* expiry handed to the directory write is one the store accepts (a positive
\* number of milliseconds) and is shorter than the 15 minutes the upstream
\* keeps a job open
C19_DefaultTtl ==
  \A r \in Req :
    (req[r].pc = "set" /\ req[r].closing_at = undefined) =>
       /\ ValidPx(req[r].expiration)
       /\ req[r].expiration < JobWindow

\* C20: the caller of a request is never called back twice, a request is over
\* exactly when its caller has been called back once, a callback is never
\* taken back, and, every reply arriving, from some point on every submitted
\* identify, track or group request has been called back
C20_CalledBackOnce ==
  /\ [](\A r \in Req :
          /\ hist[r].callbacks <= 1
          /\ req[r].pc = "done" <=> hist[r].callbacks = 1)
  /\ [][\A r \in Req : hist'[r].callbacks >= hist[r].callbacks]_vars
  /\ <>[](\A r \in Req : req[r].entry = "none" \/ hist[r].callbacks = 1)

\* a group request whose append failed, whose fallback create succeeded and
\* whose directory write failed has been called back once
C20_Witness ==
  \E r \in Req :
    /\ req[r].entry = "group" /\ req[r].pc = "done" /\ hist[r].callbacks = 1
    /\ Len(hist[r].sent) = 2 /\ hist[r].sent[1].status = "err"
    /\ hist[r].sent[2].status = "ok" /\ hist[r].writeFailed # "no"

\* the job key of a request, spelled out: tenant, 'jobs', 'events' for track
\* and 'users' for group, and the user
JobKeyOf(r) ==
  Join(<<settings.appId, "jobs",
         IF req[r].entry = "track" THEN "events" ELSE "users",
         Or(req[r].msg.userId, req[r].msg.email)>>)

\* the job was opened by a create of a request entered as kind
OpenedBy(j, kind) ==
  \E q \in Req : req[q].entry = kind /\ \E n \in 1..2 : j = JobName(q, n)

\* C21: the job key a request reads, and the one it writes once its create has
\* succeeded, are both the job key of its kind (events for track, users for
\* group) and its user; a record written during the run lies under the job key
\* of the kind of request that opened its job, and a job a request found in
\* the directory was opened by a request of its own kind
C21_SameJobKeyPerKind ==
  /\ \A r \in Req :
       /\ req[r].pc \in {"get", "append", "create", "set"} => req[r].jobKey = JobKeyOf(r)
       /\ req[r].pc \in {"create", "set"} => req[r].setKey = req[r].jobKey
       /\ (Hit(r) /\ hist[r].lookup # SeedJob) => OpenedBy(hist[r].lookup, req[r].entry)
  /\ \A e \in db :
       e.jobId # SeedJob =>
         \E q \in Req : /\ \E n \in 1..2 : e.jobId = JobName(q, n)
                        /\ req[q].handler \in {"trackV2", "groupV2"}
                        /\ e.key = JobKeyOf(q)

\* a track request has recorded its job under the events key, and a group
\* request of the same user, reading afterwards, found no record and has its
\* own write under the users key pending
C21_Witness ==
  \E r1, r2 \in Req :
    /\ req[r1].handler = "trackV2" /\ req[r1].pc = "done"
    /\ Get(JobKeyOf(r1)) = JobName(r1, 1)
    /\ req[r2].handler = "groupV2" /\ req[r2].pc = "set"
    /\ hist[r2].lookup = NoJob /\ req[r2].setKey # JobKeyOf(r1)
    /\ req[r1].msg.userId = req[r2].msg.userId /\ req[r1].msg.email = req[r2].msg.email

\* the request's append and its fallback create have both failed
BothFailed(h) ==
  /\ Len(h.sent) = 2
  /\ IsAppend(h.sent[1]) /\ h.sent[1].status = "err"
  /\ IsCreate(h.sent[2]) /\ h.sent[2].status = "err"

\* C22: no step removes the record of a job key; a request whose append to J
\* and whose fallback create both failed has issued no write, and from the
\* create's reply to the unlock's reply the record under its job key holds J
\* unchanged; and a request whose lookup is answered with a record sends an
\* append to the job recorded at that moment before anything else
C22_NoRecordDeleted ==
  /\ [][\A e \in db : \E f \in db' : f.key = e.key]_vars
  /\ [](\A r \in Req :
          BothFailed(hist[r]) =>
             /\ hist[r].writes = 0
             /\ req[r].pc \in {"unlock", "done"}
             /\ req[r].pc = "unlock" => Get(req[r].jobKey) = hist[r].lookup)
  /\ [][\A r \in Req :
          (req[r].pc \in {"create", "unlock"} /\ BothFailed(hist'[r])) =>
             {e \in db' : e.key = req[r].jobKey} = {e \in db : e.key = req[r].jobKey}]_vars
  /\ [][\A r \in Req :
          ( /\ req[r].pc = "get" /\ req'[r].pc # "get"
            /\ Get(req[r].jobKey) # NoJob /\ hist'[r].lookup # "error" )
          => /\ req'[r].pc = "append"
             /\ hist'[r].sent = <<Call(Endpoint(req[r].msg), Get(req[r].jobKey), TRUE)>>]_vars

\* after a track request's append to the recorded job and its fallback create
\* both failed, the next track request of the user has its append to the same
\* job in flight, the record still in the directory
C22_Witness ==
  \E r1, r2 \in Req :
    /\ req[r1].handler = "trackV2" /\ req[r1].pc = "done" /\ BothFailed(hist[r1])
    /\ hist[r1].lookup = SeedJob
    /\ req[r2].handler = "trackV2" /\ req[r2].pc = "append"
    /\ req[r2].jobKey = TrackJobKey(req[r1].msg)
    /\ hist[r2].sent[1].job = SeedJob /\ Get(req[r2].jobKey) = SeedJob
    /\ r1 < r2
====
